---- MODULE Spec2Model ----
(***************************************************************************)
(* A model of the keyvalue store (package keyvalue): a Store that appends  *)
(* JSON lines to a log file and optionally mirrors the current state in an *)
(* in-memory map.                                                          *)
(*                                                                         *)
(* Go strings are byte strings.  A string is modelled as a sequence of     *)
(* units, each unit standing for a fixed run of bytes:                     *)
(*   "a" "b" "v" "w"  one ASCII byte each                                  *)
(*   "xFF"            the single byte 0xFF, which is not valid UTF-8       *)
(*   "uFFFD"          the rune U+FFFD, the three bytes EF BF BD            *)
(*   "z64k"           a run of 65536 bytes 'z'                             *)
(* and, only inside the text of a log line,                                *)
(*   "esc_ufffd"      the six characters backslash u f f f d that          *)
(*                    encoding/json writes                                 *)
(*                    for a byte that is not valid UTF-8.                  *)
(***************************************************************************)
EXTENDS Integers, Sequences, FiniteSets, TLC

VARIABLES
    store,      \* the Store struct: data, useMemory, maxKeys, maxKeySize,
                \* maxValueSize, and open (whether s.file is an open handle)
    disk,       \* the content of the file s.filename: a sequence of lines
    last,       \* the most recent call on the store and what it returned
    peer,       \* a second Store, with its own file, used by SpecModes
    peerDisk,   \* the content of the peer's file
    mu,         \* s.mu, the sync.RWMutex: who holds it, used by SpecLocks
    frames      \* the call each goroutine is in and its position in it,
                \* used by SpecLocks

vars == <<store, disk, last, peer, peerDisk, mu, frames>>

(***************************************************************************)
(* Bounds of the model.                                                    *)
(***************************************************************************)
\* the log file never holds more than this many lines
MaxLogLen == 3

(***************************************************************************)
(* Strings.                                                                *)
(***************************************************************************)
\* bufio.MaxScanTokenSize: the size of the largest line a Scanner returns
MaxScanTokenSize == 65536

\* the number of bytes a unit stands for
UnitLen(u) ==
    CASE u = "xFF" -> 1
      [] u = "uFFFD" -> 3
      [] u = "z64k" -> 65536
      [] u = "esc_ufffd" -> 6
      [] OTHER -> 1

RECURSIVE ByteLen(_)
\* len(s) of a Go string: its length in bytes
ByteLen(s) ==
    IF s = <<>> THEN 0 ELSE UnitLen(Head(s)) + ByteLen(Tail(s))

\* the empty string
EmptyString == <<>>

\* json.Marshal of a string: the text between the quotes.  Bytes that are
\* not valid UTF-8 are written as the escape backslash-u-fffd.
EncodeString(s) ==
    [i \in DOMAIN s |-> IF s[i] = "xFF" THEN "esc_ufffd" ELSE s[i]]

\* json.Unmarshal of the text of a string: the escape decodes to U+FFFD
DecodeString(t) ==
    [i \in DOMAIN t |-> IF t[i] = "esc_ufffd" THEN "uFFFD" ELSE t[i]]

(***************************************************************************)
(* Entries and log lines.                                                  *)
(***************************************************************************)
\* type Entry struct { Key; Value; Deleted }
Entry(key, value, deleted) ==
    [Key |-> key, Value |-> value, Deleted |-> deleted]

\* json.Marshal(entry): the text of one log line.  The value field is
\* omitted when empty and the deleted field when false (omitempty), which
\* the line records as an empty value text and deleted = FALSE.
Marshal(entry) ==
    [key |-> EncodeString(entry.Key),
     value |-> EncodeString(entry.Value),
     deleted |-> entry.Deleted]

\* json.Unmarshal(line, &entry): a missing field leaves the zero value.
\* Every line of the files considered here was written by Marshal, so
\* Unmarshal returns no error.
Unmarshal(line) ==
    Entry(DecodeString(line.key), DecodeString(line.value), line.deleted)

\* the number of bytes of a line, without its newline:
\*   {"key":"K"}  {"key":"K","value":"V"}  {"key":"K","deleted":true}
LineLen(line) ==
    8 + ByteLen(line.key) + 1
      + (IF line.value # <<>> THEN 10 + ByteLen(line.value) + 1 ELSE 0)
      + (IF line.deleted THEN 15 ELSE 0)
      + 1

\* a line, with its newline, that does not fit a Scanner's buffer
TooLong(line) == LineLen(line) + 1 > MaxScanTokenSize

RECURSIVE Scan(_)
\* the lines for which scanner.Scan() returns true: the scan ends at the
\* first line that is too long (bufio.ErrTooLong)
Scan(f) ==
    IF f = <<>> \/ TooLong(Head(f)) THEN <<>>
    ELSE <<Head(f)>> \o Scan(Tail(f))

\* scanner.Err() after the loop: non-nil when the scan ended at a line
\* that is too long
ScanErr(f) == \E i \in DOMAIN f : TooLong(f[i])

(***************************************************************************)
(* The map s.data.                                                         *)
(***************************************************************************)
EmptyMap == [k \in {} |-> <<>>]

\* m[key] = value
MapSet(m, key, value) ==
    [k \in DOMAIN m \cup {key} |-> IF k = key THEN value ELSE m[k]]

\* delete(m, key)
MapDelete(m, key) == [k \in DOMAIN m \ {key} |-> m[k]]

\* len(m)
MapLen(m) == Cardinality(DOMAIN m)

(***************************************************************************)
(* The Store.                                                              *)
(***************************************************************************)
\* type StoreConfig struct { UseMemory; MaxKeys; MaxKeySize; MaxValueSize }
StoreConfig(useMemory, maxKeys, maxKeySize, maxValueSize) ==
    [UseMemory |-> useMemory, MaxKeys |-> maxKeys,
     MaxKeySize |-> maxKeySize, MaxValueSize |-> maxValueSize]

\* what a call returns besides its values: the error, "nil" for none
ErrNil == "nil"
ErrKeySize == "key exceeds max size"
ErrValueSize == "value exceeds max size"
ErrMaxKeys == "store has reached max number of keys"
ErrWrite == "error writing to log file"
ErrNoEntries == "no entries found matching the criteria"
ErrScan == "bufio.Scanner: token too long"

RECURSIVE LoadLines(_, _, _)
\* the loop of load(): apply each scanned line to the map, and stop once
\* the map holds more than maxKeys keys
LoadLines(data, lines, maxKeys) ==
    IF lines = <<>> THEN data
    ELSE LET entry == Unmarshal(Head(lines))
             next == IF entry.Deleted
                     THEN MapDelete(data, entry.Key)
                     ELSE MapSet(data, entry.Key, entry.Value)
         IN  IF MapLen(next) > maxKeys THEN next
             ELSE LoadLines(next, Tail(lines), maxKeys)

\* load(): build the in-memory map from the file
StoreLoad(s, f) ==
    [s EXCEPT !.data = LoadLines(s.data, Scan(f), s.maxKeys)]

\* NewStore(filename, config): the file f is opened (created when absent)
\* and the map loaded from it in memory mode
NewStore(f, config) ==
    LET s == [data |-> EmptyMap,
              useMemory |-> config.UseMemory,
              maxKeys |-> config.MaxKeys,
              maxKeySize |-> config.MaxKeySize,
              maxValueSize |-> config.MaxValueSize,
              open |-> TRUE]
    IN  IF config.UseMemory THEN StoreLoad(s, f) ELSE s

\* the outcome of a call that may change the store and its file.  The
\* only write that fails here is a write to a closed file (after Close).
Outcome(s, f, err) == [store |-> s, disk |-> f, err |-> err]

\* Store.Set as it would be with the map updated before the append
StoreSetMapBeforeAppend(s, f, key, value) ==
    IF ByteLen(key) > s.maxKeySize THEN Outcome(s, f, ErrKeySize)
    ELSE IF ByteLen(value) > s.maxValueSize THEN Outcome(s, f, ErrValueSize)
    ELSE IF s.useMemory /\ MapLen(s.data) >= s.maxKeys
    THEN Outcome(s, f, ErrMaxKeys)
    ELSE LET updated == IF s.useMemory
                        THEN [s EXCEPT !.data = MapSet(s.data, key, value)]
                        ELSE s
         IN  IF ~s.open THEN Outcome(updated, f, ErrWrite)
             ELSE Outcome(updated,
                          Append(f, Marshal(Entry(key, value, FALSE))), ErrNil)

\* Store.Set as it would be with the capacity check made after the append
StoreSetCheckAfterAppend(s, f, key, value) ==
    IF ByteLen(key) > s.maxKeySize THEN Outcome(s, f, ErrKeySize)
    ELSE IF ByteLen(value) > s.maxValueSize THEN Outcome(s, f, ErrValueSize)
    ELSE IF ~s.open THEN Outcome(s, f, ErrWrite)
    ELSE IF s.useMemory /\ MapLen(s.data) >= s.maxKeys
         THEN Outcome(s, Append(f, Marshal(Entry(key, value, FALSE))),
                      ErrMaxKeys)
    ELSE Outcome(
           IF s.useMemory
           THEN [s EXCEPT !.data = MapSet(s.data, key, value)] ELSE s,
           Append(f, Marshal(Entry(key, value, FALSE))),
           ErrNil)

\* Store.Set(key, value)
StoreSet(s, f, key, value) ==
    IF ByteLen(key) > s.maxKeySize THEN Outcome(s, f, ErrKeySize)
    ELSE IF ByteLen(value) > s.maxValueSize THEN Outcome(s, f, ErrValueSize)
    ELSE IF s.useMemory /\ MapLen(s.data) >= s.maxKeys
         THEN Outcome(s, f, ErrMaxKeys)
    ELSE IF ~s.open THEN Outcome(s, f, ErrWrite)
    ELSE Outcome(
           IF s.useMemory
           THEN [s EXCEPT !.data = MapSet(s.data, key, value)] ELSE s,
           Append(f, Marshal(Entry(key, value, FALSE))),
           ErrNil)

RECURSIVE GetScan(_, _, _, _)
\* the loop of Get in file-only mode: the state of key after the lines
GetScan(lines, key, lastValue, exists) ==
    IF lines = <<>> THEN <<lastValue, exists>>
    ELSE LET entry == Unmarshal(Head(lines))
         IN  IF entry.Key = key
             THEN IF entry.Deleted
                  THEN GetScan(Tail(lines), key, EmptyString, FALSE)
                  ELSE GetScan(Tail(lines), key, entry.Value, TRUE)
             ELSE GetScan(Tail(lines), key, lastValue, exists)

\* Store.Get(key): <<value, exists>>
StoreGet(s, f, key) ==
    IF s.useMemory
    THEN IF key \in DOMAIN s.data THEN <<s.data[key], TRUE>>
         ELSE <<EmptyString, FALSE>>
    ELSE GetScan(Scan(f), key, EmptyString, FALSE)

\* Store.Delete(key)
StoreDelete(s, f, key) ==
    IF ~s.open THEN Outcome(s, f, ErrWrite)
    ELSE Outcome(
           IF s.useMemory
           THEN [s EXCEPT !.data = MapDelete(s.data, key)] ELSE s,
           Append(f, Marshal(Entry(key, EmptyString, TRUE))),
           ErrNil)

\* the orders in which a range over a map with these keys may visit them
Orders(keys) ==
    {o \in [1..Cardinality(keys) -> keys] :
        \A i, j \in DOMAIN o : i # j => o[i] # o[j]}

\* Store.Compact(), the range over s.data visiting the keys in this order:
\* the file is replaced by one line per key of the map, and reopened
StoreCompact(s, f, order) ==
    Outcome([s EXCEPT !.open = TRUE],
            [i \in DOMAIN order |->
                Marshal(Entry(order[i], s.data[order[i]], FALSE))],
            ErrNil)

\* Store.Close()
StoreClose(s, f) == Outcome([s EXCEPT !.open = FALSE], f, ErrNil)

(***************************************************************************)
(* FindByFunction.                                                         *)
(***************************************************************************)
\* the functions the callers pass to FindByFunction
Fns == {"key_is_a", "key_is_b_or_value_is_w"}

\* fn(key, value)
Fn(fn, key, value) ==
    CASE fn = "key_is_a" -> key = <<"a">>
      [] OTHER -> key = <<"b">> \/ value = <<"w">>

RECURSIVE FindScan(_, _, _)
\* the loop of FindByFunction in file-only mode: lines marked deleted are
\* passed over, and every other line that satisfies fn is put in results
FindScan(lines, fn, results) ==
    IF lines = <<>> THEN results
    ELSE LET entry == Unmarshal(Head(lines))
         IN  IF entry.Deleted THEN FindScan(Tail(lines), fn, results)
             ELSE IF Fn(fn, entry.Key, entry.Value)
             THEN FindScan(Tail(lines), fn,
                           MapSet(results, entry.Key, entry.Value))
             ELSE FindScan(Tail(lines), fn, results)

\* the entries of s.data that satisfy fn
FindInData(data, fn) ==
    LET keys == {k \in DOMAIN data : Fn(fn, k, data[k])}
    IN  [k \in keys |-> data[k]]

\* what FindByFunction returns: the entries, in no particular order, and
\* the error
Found(results, err) ==
    [entries |-> {Entry(k, results[k], FALSE) : k \in DOMAIN results},
     err |-> err]

\* Store.FindByFunction(fn)
StoreFindByFunction(s, f, fn) ==
    LET inData == FindInData(s.data, fn)
        results == IF s.useMemory THEN inData
                   ELSE FindScan(Scan(f), fn, inData)
    IN  IF ~s.useMemory /\ ScanErr(f) THEN Found(EmptyMap, ErrScan)
        ELSE IF MapLen(results) = 0 THEN Found(EmptyMap, ErrNoEntries)
        ELSE Found(results, ErrNil)

(***************************************************************************)
(* The callers: what they pass, and the record of the last call.           *)
(***************************************************************************)
\* the keys passed to Get and Delete
Keys == {<<"a">>, <<"b">>}

\* the keys passed to Set: those, and a key of two bytes
SetKeys == Keys \cup {<<"a", "b">>}

\* the values passed to Set
Values == {<<"v">>, <<"w">>, <<"xFF">>, <<"z64k">>}

\* the configurations passed to NewStore
Configs ==
    {StoreConfig(TRUE, 1, 1, 1), StoreConfig(TRUE, 2, 1, 1),
     StoreConfig(FALSE, 2, 1, 65536)}

\* the log files found at construction, written by earlier runs
InitLogs ==
    LET setA == Marshal(Entry(<<"a">>, <<"v">>, FALSE))
        setB == Marshal(Entry(<<"b">>, <<"w">>, FALSE))
        delA == Marshal(Entry(<<"a">>, EmptyString, TRUE))
    IN  {<<>>, <<setA>>, <<setA, setB>>, <<setA, setB, delA>>}

\* the record of a call
Call(op, key, value, fn, err, val, ok, entries) ==
    [op |-> op, key |-> key, value |-> value, fn |-> fn, err |-> err,
     val |-> val, ok |-> ok, entries |-> entries]

NoCall == Call("NewStore", EmptyString, EmptyString, "", ErrNil,
               EmptyString, FALSE, {})

\* the peer store is not used by Spec
NoPeer == NewStore(<<>>, StoreConfig(FALSE, 0, 0, 0))

(***************************************************************************)
(* The callers of the store and its mutex.  Spec, SpecModes and SpecFaults *)
(* take each method as one step, with no call in progress and the mutex    *)
(* free between the steps; SpecLocks, below, follows the calls of several  *)
(* goroutines through their lock, their steps and their unlock.            *)
(***************************************************************************)
Goroutines == {1, 2}

\* nobody holds s.mu; a writer is named by its goroutine, 0 for none
Unlocked == [writer |-> 0, readers |-> {}]

\* the frame of a call: the method, its arguments, the position reached and
\* its local variables
Frame(op, pc, key, value, fn) ==
    [op |-> op, pc |-> pc, key |-> key, value |-> value, fn |-> fn,
     pos |-> 0,               \* lines read by the scanner so far
     val |-> EmptyString,     \* lastValue of Get
     ok |-> FALSE,            \* exists of Get
     results |-> EmptyMap,    \* results of FindByFunction
     temp |-> <<>>,           \* the temporary log of Compact
     detached |-> FALSE,      \* the file read by the scan has been replaced
     snapshot |-> <<>>]       \* ... and this is the content of the old file

Idle == Frame("", "idle", EmptyString, EmptyString, "")

NoCalls == [t \in Goroutines |-> Idle]

(***************************************************************************)
(* The actions: one per method of Store.                                   *)
(***************************************************************************)
Init ==
    \E config \in Configs, f \in InitLogs :
        /\ store = NewStore(f, config)
        /\ disk = f
        /\ last = NoCall
        /\ peer = NoPeer
        /\ peerDisk = <<>>
        /\ mu = Unlocked
        /\ frames = NoCalls

Set(key, value) ==
    LET out == StoreSet(store, disk, key, value)
    IN  /\ Len(out.disk) <= MaxLogLen
        /\ store' = out.store
        /\ disk' = out.disk
        /\ last' = Call("Set", key, value, "", out.err, EmptyString, FALSE, {})
        /\ UNCHANGED <<peer, peerDisk, mu, frames>>

Get(key) ==
    LET got == StoreGet(store, disk, key)
    IN  /\ last' = Call("Get", key, EmptyString, "", ErrNil,
                        got[1], got[2], {})
        /\ UNCHANGED <<store, disk, peer, peerDisk, mu, frames>>

Delete(key) ==
    LET out == StoreDelete(store, disk, key)
    IN  /\ Len(out.disk) <= MaxLogLen
        /\ store' = out.store
        /\ disk' = out.disk
        /\ last' = Call("Delete", key, EmptyString, "", out.err,
                        EmptyString, FALSE, {})
        /\ UNCHANGED <<peer, peerDisk, mu, frames>>

Compact ==
    \E order \in Orders(DOMAIN store.data) :
        LET out == StoreCompact(store, disk, order)
        IN  /\ store' = out.store
            /\ disk' = out.disk
            /\ last' = Call("Compact", EmptyString, EmptyString, "", out.err,
                            EmptyString, FALSE, {})
            /\ UNCHANGED <<peer, peerDisk, mu, frames>>

Close ==
    LET out == StoreClose(store, disk)
    IN  /\ store' = out.store
        /\ disk' = out.disk
        /\ last' = Call("Close", EmptyString, EmptyString, "", out.err,
                        EmptyString, FALSE, {})
        /\ UNCHANGED <<peer, peerDisk, mu, frames>>

FindByFunction(fn) ==
    LET found == StoreFindByFunction(store, disk, fn)
    IN  /\ last' = Call("FindByFunction", EmptyString, EmptyString, fn,
                        found.err, EmptyString, FALSE, found.entries)
        /\ UNCHANGED <<store, disk, peer, peerDisk, mu, frames>>

Next ==
    \/ \E key \in SetKeys, value \in Values : Set(key, value)
    \/ \E key \in Keys : Get(key)
    \/ \E key \in Keys : Delete(key)
    \/ Compact
    \/ Close
    \/ \E fn \in Fns : FindByFunction(fn)

Spec == Init /\ [][Next]_vars

(***************************************************************************)
(* Two fresh stores with the same limits, one in memory mode (store) and   *)
(* one in file-only mode (peer), given the same Set and Delete calls.      *)
(***************************************************************************)
InitModes ==
    \E maxKeys \in {1, 2}, maxValueSize \in {1, 65536} :
        /\ store = NewStore(<<>>, StoreConfig(TRUE, maxKeys, 1, maxValueSize))
        /\ disk = <<>>
        /\ peer = NewStore(<<>>, StoreConfig(FALSE, maxKeys, 1, maxValueSize))
        /\ peerDisk = <<>>
        /\ last = NoCall
        /\ mu = Unlocked
        /\ frames = NoCalls

SetBoth(key, value) ==
    LET out == StoreSet(store, disk, key, value)
        peerOut == StoreSet(peer, peerDisk, key, value)
    IN  /\ Len(out.disk) <= MaxLogLen
        /\ Len(peerOut.disk) <= MaxLogLen
        /\ store' = out.store
        /\ disk' = out.disk
        /\ peer' = peerOut.store
        /\ peerDisk' = peerOut.disk
        /\ last' = Call("Set", key, value, "", out.err, EmptyString, FALSE, {})
        /\ UNCHANGED <<mu, frames>>

DeleteBoth(key) ==
    LET out == StoreDelete(store, disk, key)
        peerOut == StoreDelete(peer, peerDisk, key)
    IN  /\ Len(out.disk) <= MaxLogLen
        /\ Len(peerOut.disk) <= MaxLogLen
        /\ store' = out.store
        /\ disk' = out.disk
        /\ peer' = peerOut.store
        /\ peerDisk' = peerOut.disk
        /\ last' = Call("Delete", key, EmptyString, "", out.err,
                        EmptyString, FALSE, {})
        /\ UNCHANGED <<mu, frames>>

NextModes ==
    \/ \E key \in SetKeys, value \in Values : SetBoth(key, value)
    \/ \E key \in Keys : DeleteBoth(key)

SpecModes == InitModes /\ [][NextModes]_vars

(***************************************************************************)
(* The canonical state of a log: every line applied in order, a tombstone  *)
(* removing its key and any other line setting it.                         *)
(***************************************************************************)
RECURSIVE ReplayLines(_, _)
ReplayLines(state, lines) ==
    IF lines = <<>> THEN state
    ELSE LET entry == Unmarshal(Head(lines))
         IN  ReplayLines(IF entry.Deleted
                         THEN MapDelete(state, entry.Key)
                         ELSE MapSet(state, entry.Key, entry.Value),
                         Tail(lines))

Replay(f) == ReplayLines(EmptyMap, f)

\* what a search of a canonical state returns
FindInState(state, fn) ==
    LET results == FindInData(state, fn)
    IN  IF MapLen(results) = 0 THEN Found(EmptyMap, ErrNoEntries)
        ELSE Found(results, ErrNil)

\* the step just taken is a call Set(last'.key, last'.value) on an open
\* store with the key and the value within the size limits
SetWithinLimits ==
    /\ last'.op = "Set"
    /\ store.open
    /\ ByteLen(last'.key) <= store.maxKeySize
    /\ ByteLen(last'.value) <= store.maxValueSize

(***************************************************************************)
(* C1.  Round trip: a Set(key, value) with the key and the value within    *)
(* the size limits, on an open store that holds fewer than maxKeys keys    *)
(* in memory mode, succeeds, and a Get(key) right after it returns         *)
(* (value, true), in memory mode and in file-only mode.                    *)
(***************************************************************************)
C1_SetThenGet ==
    [][(SetWithinLimits
        /\ (store.useMemory => MapLen(store.data) < store.maxKeys))
       => /\ last'.err = ErrNil
          /\ StoreGet(store', disk', last'.key) = <<last'.value, TRUE>>]_vars

(***************************************************************************)
(* C2.  Capacity in memory mode: a Set of a key that is not in the map     *)
(* succeeds while the map holds fewer than maxKeys keys and fails with     *)
(* the capacity error once it holds maxKeys; a Set of a key that is in     *)
(* the map succeeds while the map holds maxKeys keys.                      *)
(***************************************************************************)
C2_Capacity ==
    [][(SetWithinLimits /\ store.useMemory)
       => /\ (last'.key \notin DOMAIN store.data
              /\ MapLen(store.data) < store.maxKeys)
             => last'.err = ErrNil
          /\ (last'.key \notin DOMAIN store.data
              /\ MapLen(store.data) >= store.maxKeys)
             => last'.err = ErrMaxKeys
          /\ (last'.key \in DOMAIN store.data
              /\ MapLen(store.data) = store.maxKeys)
             => last'.err = ErrNil]_vars

(***************************************************************************)
(* C3.  Last write wins: when a Set(key, a) has succeeded and the next     *)
(* call is Set(key, b) with b within the size limit, a Get(key) after it   *)
(* returns (b, true), in both modes.                                       *)
(***************************************************************************)
C3_LastWriteWins ==
    [][(/\ last.op = "Set" /\ last.err = ErrNil
        /\ SetWithinLimits
        /\ last'.key = last.key)
       => StoreGet(store', disk', last'.key) = <<last'.value, TRUE>>]_vars

(***************************************************************************)
(* C4.  Tombstone: a Delete(key) on an open store returns no error and     *)
(* appends exactly one tombstone line for key, whether or not the key was  *)
(* present; and when it follows a Set(key, v) that succeeded, a Get(key)   *)
(* after it returns absent, in both modes.                                 *)
(***************************************************************************)
C4_Tombstone ==
    [][(last'.op = "Delete" /\ store.open)
       => /\ last'.err = ErrNil
          /\ disk' = Append(disk, Marshal(Entry(last'.key, EmptyString, TRUE)))
          /\ (last.op = "Set" /\ last.err = ErrNil /\ last.key = last'.key)
             => StoreGet(store', disk', last'.key) = <<EmptyString, FALSE>>]_vars

(***************************************************************************)
(* C5.  A rejected Set changes nothing: when Set returns the key-size,     *)
(* the value-size or the capacity error, the log file and the store (its   *)
(* map included) are what they were before the call; and a key or a value  *)
(* whose length equals its limit is not rejected for its size.             *)
(***************************************************************************)
C5_RejectedSetChangesNothing ==
    [][last'.op = "Set"
       => /\ (last'.err \in {ErrKeySize, ErrValueSize, ErrMaxKeys})
             => (disk' = disk /\ store' = store)
          /\ (ByteLen(last'.key) = store.maxKeySize)
             => last'.err # ErrKeySize
          /\ (ByteLen(last'.value) = store.maxValueSize)
             => last'.err # ErrValueSize]_vars

\* a Set was rejected for capacity by a store whose log and map are not
\* empty
C5_Witness ==
    /\ last.op = "Set"
    /\ last.err = ErrMaxKeys
    /\ disk # <<>>
    /\ MapLen(store.data) > 0

(***************************************************************************)
(* C6.  Mode equivalence: after the same Set and Delete calls on a fresh   *)
(* memory-mode store and a fresh file-only store, Get of every key and     *)
(* FindByFunction of every function return the same in both.               *)
(***************************************************************************)
C6_ModeEquivalence ==
    /\ \A key \in Keys :
          StoreGet(store, disk, key) = StoreGet(peer, peerDisk, key)
    /\ \A fn \in Fns :
          StoreFindByFunction(store, disk, fn)
            = StoreFindByFunction(peer, peerDisk, fn)

(***************************************************************************)
(* C7.  In file-only mode FindByFunction returns exactly the entries of    *)
(* the canonical state of the log that satisfy the function (and the       *)
(* no-match error when there are none): a key whose latest line is a       *)
(* tombstone is not returned, and an overwritten key is judged by its      *)
(* latest value only.                                                      *)
(***************************************************************************)
C7_FindIsOverCanonicalState ==
    (last.op = "FindByFunction" /\ ~store.useMemory)
    => [entries |-> last.entries, err |-> last.err]
         = FindInState(Replay(disk), last.fn)

(***************************************************************************)
(* C8.  In file-only mode Compact keeps what Get returns: for every key,   *)
(* Get(key) after Compact equals Get(key) before it.                       *)
(***************************************************************************)
C8_CompactKeepsUnindexedState ==
    [][(last'.op = "Compact" /\ ~store.useMemory)
       => \A key \in Keys :
             StoreGet(store', disk', key) = StoreGet(store, disk, key)]_vars

(***************************************************************************)
(* C9.  Compaction idempotence: when Compact is called after a Set or a    *)
(* Delete, and then called again, the canonical state of the log after     *)
(* the second call equals the canonical state of the log before the first, *)
(* and the second call writes no more lines than the first.                *)
(***************************************************************************)
C9_CompactTwice ==
    [][(last.op \in {"Set", "Delete"} /\ last'.op = "Compact")
       => \A order \in Orders(DOMAIN store'.data) :
             LET second == StoreCompact(store', disk', order)
             IN  /\ Replay(second.disk) = Replay(disk)
                 /\ Len(second.disk) <= Len(disk')]_vars

(***************************************************************************)
(* C10.  After Close the store stays closed: every later Set, Delete,      *)
(* Compact and FindByFunction returns an error and every later Get returns *)
(* absent, no call changes the log file or the map, and no call reopens    *)
(* the file.                                                               *)
(***************************************************************************)
C10_ClosedForGood ==
    [][~store.open
       => /\ ~store'.open
          /\ disk' = disk
          /\ store'.data = store.data
          /\ (last'.op \in {"Set", "Delete", "Compact", "FindByFunction"})
             => last'.err # ErrNil
          /\ (last'.op = "Get") => ~last'.ok]_vars

(***************************************************************************)
(* C11. FindByFunction returns the no-match error, and no entries, exactly *)
(* when no entry of the current non-deleted state satisfies the predicate, *)
(* and a non-empty list with no error otherwise; Get never returns an      *)
(* error, a missing or deleted key is only reported absent.                *)
(***************************************************************************)
CurrentState == IF store.useMemory THEN store.data ELSE Replay(disk)

C11_NotFoundAsymmetry ==
    /\ last.op = "FindByFunction"
       => IF MapLen(FindInData(CurrentState, last.fn)) = 0
          THEN last.err = ErrNoEntries /\ last.entries = {}
          ELSE last.err = ErrNil /\ last.entries # {}
    /\ last.op = "Get"
       => last.err = ErrNil /\ (~last.ok => last.val = EmptyString)

(***************************************************************************)
(* C12. In memory mode the Index equals the replay of the current Log in   *)
(* every state between two calls, from construction over an existing Log   *)
(* onwards.                                                                *)
(***************************************************************************)
C12_IndexIsReplayOfLog == store.useMemory => store.data = Replay(disk)

(***************************************************************************)
(* C15. Construction in memory mode never stops the replay of the Log      *)
(* early without saying so: load has no error result, so right after       *)
(* NewStore every record of the Log has been applied to the Index.         *)
(***************************************************************************)
C15_LoadAppliesEveryRecord ==
    (last.op = "NewStore" /\ store.useMemory)
        => store.data = ReplayLines(EmptyMap, disk)

(***************************************************************************)
(* C19. In memory mode the Index never holds more than maxKeys keys, also  *)
(* right after construction over an existing Log.                          *)
(***************************************************************************)
C19_IndexWithinMaxKeys == store.useMemory => MapLen(store.data) <= store.maxKeys

(***************************************************************************)
(* Store.Get of the older copy of the package: its file-only scan returns  *)
(* at the first tombstone of the key.                                      *)
(***************************************************************************)
RECURSIVE GetScan000(_, _, _, _)
GetScan000(lines, key, lastValue, exists) ==
    IF lines = <<>> THEN <<lastValue, exists>>
    ELSE LET entry == Unmarshal(Head(lines))
         IN  IF entry.Key = key
             THEN IF entry.Deleted THEN <<EmptyString, FALSE>>
                  ELSE GetScan000(Tail(lines), key, entry.Value, TRUE)
             ELSE GetScan000(Tail(lines), key, lastValue, exists)

StoreGet000(s, f, key) ==
    IF s.useMemory
    THEN IF key \in DOMAIN s.data THEN <<s.data[key], TRUE>>
         ELSE <<EmptyString, FALSE>>
    ELSE GetScan000(Scan(f), key, EmptyString, FALSE)

\* the state of key after the whole Log
StateOf(state, key) ==
    IF key \in DOMAIN state THEN <<state[key], TRUE>> ELSE <<EmptyString, FALSE>>

(***************************************************************************)
(* C16. In file-only mode Get(key) returns the state of key after the      *)
(* whole Log, in order: a tombstone makes the key absent and a later       *)
(* record makes it present again, so after Set(key, a); Delete(key);       *)
(* Set(key, b) the answer is (b, present).  Stated for both copies of      *)
(* Store.Get and for logs whose lines the scanner can read.                *)
(***************************************************************************)
C16_GetScansWholeLog ==
    (last.op = "Get" /\ ~store.useMemory /\ ~ScanErr(disk))
        => /\ <<last.val, last.ok>> = StateOf(Replay(disk), last.key)
           /\ StoreGet000(store, disk, last.key) = StateOf(Replay(disk), last.key)

(***************************************************************************)
(* C17. In memory mode a Set or Delete whose append to the Log fails       *)
(* returns an error and leaves the Index as it was; the Index changes only *)
(* in a call that returned no error and appended its record to the Log.    *)
(***************************************************************************)
C17_IndexAfterAppend ==
    [][(last'.op \in {"Set", "Delete"} /\ store.useMemory)
        => /\ last'.err # ErrNil => store'.data = store.data
           /\ store'.data # store.data
              => /\ last'.err = ErrNil
                 /\ disk' = Append(disk, Marshal(Entry(last'.key, last'.value,
                                                       last'.op = "Delete")))]_vars

\* a Set of a new key, below the key limit, whose write failed
C17_Witness ==
    /\ last.op = "Set" /\ last.err = ErrWrite
    /\ store.useMemory
    /\ last.key \notin DOMAIN store.data
    /\ MapLen(store.data) > 0

(***************************************************************************)
(* C20. After a Compact in memory mode the Log is minimal: read back, it   *)
(* holds exactly one non-deleted record (key, value) for each key of the   *)
(* Index, with the value the Index holds, no tombstone and no record of    *)
(* another key.  Between compactions Set and Delete only append: the       *)
(* records already in the Log stay as they are.                            *)
(***************************************************************************)
\* the number of lines of the file that decode to this entry
Occurrences(f, entry) == Cardinality({i \in DOMAIN f : Unmarshal(f[i]) = entry})

C20_CompactedLogIsMinimal ==
    [][/\ (last'.op = "Compact" /\ store.useMemory)
          => /\ Len(disk') = MapLen(store'.data)
             /\ \A key \in DOMAIN store'.data :
                  Occurrences(disk', Entry(key, store'.data[key], FALSE)) = 1
             /\ \A i \in DOMAIN disk' :
                  /\ ~Unmarshal(disk'[i]).Deleted
                  /\ Unmarshal(disk'[i]).Key \in DOMAIN store'.data
       /\ last'.op \in {"Set", "Delete"}
          => \/ disk' = disk
             \/ /\ Len(disk') = Len(disk) + 1
                /\ SubSeq(disk', 1, Len(disk)) = disk]_vars

(***************************************************************************)
(* Store.Compact when one of its file operations fails.  Compact has no    *)
(* result; the only failure it looks at is that of os.Create, which it     *)
(* prints before returning.  The results of WriteString, os.Rename, Close  *)
(* and os.OpenFile are dropped.                                            *)
(***************************************************************************)
\* the failing operation; the name is also the label of the call in last
FaultCreate == "Compact, os.Create fails"
FaultWrite == "Compact, WriteString fails"
FaultRename == "Compact, os.Rename fails"
Faults == {FaultCreate, FaultWrite, FaultRename}

ErrCreateTemp == "Error creating temp log file"

\* written: the number of records that reached the temporary log before
\* WriteString began to fail
StoreCompactFault(s, f, order, fault, written) ==
    LET temp == [i \in 1..written |->
                    Marshal(Entry(order[i], s.data[order[i]], FALSE))]
    IN  CASE fault = FaultCreate -> Outcome(s, f, ErrCreateTemp)
          [] fault = FaultWrite  -> Outcome([s EXCEPT !.open = TRUE], temp, ErrNil)
          [] OTHER            -> Outcome([s EXCEPT !.open = TRUE], f, ErrNil)

CompactFault(fault) ==
    \E order \in Orders(DOMAIN store.data) :
    \E written \in IF fault = FaultWrite THEN 0..(Len(order) - 1) ELSE {0} :
        LET out == StoreCompactFault(store, disk, order, fault, written)
        IN  /\ store' = out.store
            /\ disk' = out.disk
            /\ last' = Call(fault, EmptyString, EmptyString, "", out.err,
                            EmptyString, FALSE, {})
            /\ UNCHANGED <<peer, peerDisk, mu, frames>>

NextFaults ==
    \/ Next
    \/ \E fault \in Faults : CompactFault(fault)

SpecFaults == Init /\ [][NextFaults]_vars

(***************************************************************************)
(* C14. A Compact that fails at the creation of the temporary log, at the  *)
(* writing of a record or at the rename reports the failure, leaves the    *)
(* records of the Log as they were, and the following Set, Delete and Get  *)
(* behave as if Compact had not been called.                               *)
(***************************************************************************)
C14_FailedCompactIsHarmless ==
    [][last'.op \in Faults
        => /\ last'.err # ErrNil
           /\ disk' = disk
           /\ \A key \in Keys :
                /\ StoreGet(store', disk', key) = StoreGet(store, disk, key)
                /\ StoreDelete(store', disk', key) = StoreDelete(store, disk, key)
                /\ \A value \in Values :
                     StoreSet(store', disk', key, value)
                         = StoreSet(store, disk, key, value)]_vars

(***************************************************************************)
(* Concurrent callers.  Each goroutine enters a method, takes the lock the *)
(* method takes (s.mu.Lock, s.mu.RLock, or none), runs the steps of its    *)
(* body and releases the lock on return (defer s.mu.Unlock / RUnlock).     *)
(***************************************************************************)
\* the locks as they would be if Set took the shared lock
LockKindSetShared(op, useMemory) ==
    CASE op \in {"Delete", "Compact", "Close"} -> "Lock"
      [] op \in {"Set", "FindByFunction"} -> "RLock"
      [] OTHER -> IF useMemory THEN "RLock" ELSE "none"

\* the lock a method takes before its body
LockKind(op, useMemory) ==
    CASE op \in {"Set", "Delete", "Compact", "Close"} -> "Lock"
      [] op = "FindByFunction" -> "RLock"
      [] OTHER -> IF useMemory THEN "RLock" ELSE "none"

\* sync.RWMutex: Lock waits for the writer and the readers to leave, RLock
\* for the writer
CanAcquire(m, kind) ==
    CASE kind = "Lock" -> m.writer = 0 /\ m.readers = {}
      [] kind = "RLock" -> m.writer = 0
      [] OTHER -> TRUE

Acquired(m, kind, t) ==
    CASE kind = "Lock" -> [m EXCEPT !.writer = t]
      [] kind = "RLock" -> [m EXCEPT !.readers = @ \cup {t}]
      [] OTHER -> m

Released(m, kind, t) ==
    CASE kind = "Lock" -> [m EXCEPT !.writer = 0]
      [] kind = "RLock" -> [m EXCEPT !.readers = @ \ {t}]
      [] OTHER -> m

\* the first position of a method after its lock
FirstPc(op, useMemory) ==
    CASE op = "Compact" -> "create"
      [] op \in {"Get", "FindByFunction"} /\ ~useMemory -> "scan"
      [] OTHER -> "body"

\* the calls the goroutines make
Calls ==
    {Frame("Set", "lock", <<"a">>, <<"v">>, ""),
     Frame("Delete", "lock", <<"a">>, EmptyString, ""),
     Frame("Get", "lock", <<"a">>, EmptyString, ""),
     Frame("FindByFunction", "lock", EmptyString, EmptyString, "key_is_a"),
     Frame("Compact", "lock", EmptyString, EmptyString, ""),
     Frame("Close", "lock", EmptyString, EmptyString, "")}

InitLocks ==
    \E useMemory \in BOOLEAN :
    \E f \in {<<>>, <<Marshal(Entry(<<"a">>, <<"v">>, FALSE))>>} :
        /\ store = NewStore(f, StoreConfig(useMemory, 1, 1, 1))
        /\ disk = f
        /\ last = NoCall
        /\ peer = NoPeer
        /\ peerDisk = <<>>
        /\ mu = Unlocked
        /\ frames = NoCalls

\* the goroutine calls a method
Enter(t, call) ==
    /\ frames[t].pc = "idle"
    /\ frames' = [frames EXCEPT ![t] = call]
    /\ UNCHANGED <<store, disk, last, peer, peerDisk, mu>>

\* s.mu.Lock() or s.mu.RLock(); the file-only Get takes neither and goes
\* on to os.Open
Acquire(t) ==
    LET kind == LockKind(frames[t].op, store.useMemory)
    IN  /\ frames[t].pc = "lock"
        /\ CanAcquire(mu, kind)
        /\ mu' = Acquired(mu, kind, t)
        /\ frames' = [frames EXCEPT ![t].pc = FirstPc(frames[t].op, store.useMemory)]
        /\ UNCHANGED <<store, disk, last, peer, peerDisk>>

\* the body of Set, Delete or Close
WriteBody(t) ==
    LET frame == frames[t]
        out == CASE frame.op = "Set" -> StoreSet(store, disk, frame.key, frame.value)
                 [] frame.op = "Delete" -> StoreDelete(store, disk, frame.key)
                 [] OTHER -> StoreClose(store, disk)
    IN  /\ frame.pc = "body"
        /\ frame.op \in {"Set", "Delete", "Close"}
        /\ Len(out.disk) <= MaxLogLen
        /\ store' = out.store
        /\ disk' = out.disk
        /\ frames' = [frames EXCEPT ![t].pc = "unlock"]
        /\ UNCHANGED <<last, peer, peerDisk, mu>>

\* the body of Get or FindByFunction in memory mode
ReadBody(t) ==
    LET frame == frames[t]
        got == StoreGet(store, disk, frame.key)
    IN  /\ frame.pc = "body"
        /\ frame.op \in {"Get", "FindByFunction"}
        /\ frames' = [frames EXCEPT ![t] =
              IF frame.op = "Get"
              THEN [frame EXCEPT !.pc = "unlock", !.val = got[1], !.ok = got[2]]
              ELSE [frame EXCEPT !.pc = "unlock",
                                 !.results = FindInData(store.data, frame.fn)]]
        /\ UNCHANGED <<store, disk, last, peer, peerDisk, mu>>

\* one scanner.Scan() of the file-only Get or FindByFunction: the next line
\* of the file the handle was opened on, or the end of the scan
ScanStep(t) ==
    LET frame == frames[t]
        lines == Scan(IF frame.detached THEN frame.snapshot ELSE disk)
        line == <<lines[frame.pos + 1]>>
        got == GetScan(line, frame.key, frame.val, frame.ok)
    IN  /\ frame.pc = "scan"
        /\ frames' = [frames EXCEPT ![t] =
              IF frame.pos >= Len(lines)
              THEN [frame EXCEPT !.pc = "unlock"]
              ELSE IF frame.op = "Get"
              THEN [frame EXCEPT !.pos = @ + 1, !.val = got[1], !.ok = got[2]]
              ELSE [frame EXCEPT !.pos = @ + 1,
                                 !.results = FindScan(line, frame.fn, @)]]
        /\ UNCHANGED <<store, disk, last, peer, peerDisk, mu>>

\* Compact: os.Create(tempFile)
CompactCreate(t) ==
    /\ frames[t].pc = "create"
    /\ frames' = [frames EXCEPT ![t].pc = "write", ![t].temp = <<>>]
    /\ UNCHANGED <<store, disk, last, peer, peerDisk, mu>>

\* Compact: the range over s.data writing the temporary log
CompactWrite(t) ==
    \E order \in Orders(DOMAIN store.data) :
        /\ frames[t].pc = "write"
        /\ frames' = [frames EXCEPT ![t].pc = "replace",
                                    ![t].temp = StoreCompact(store, disk, order).disk]
        /\ UNCHANGED <<store, disk, last, peer, peerDisk, mu>>

\* Compact: os.Rename, s.file.Close and os.OpenFile.  A scan in progress
\* keeps reading the file it opened, which no longer has a name.
CompactReplace(t) ==
    /\ frames[t].pc = "replace"
    /\ disk' = frames[t].temp
    /\ store' = [store EXCEPT !.open = TRUE]
    /\ frames' = [u \in Goroutines |->
          IF u = t THEN [frames[u] EXCEPT !.pc = "unlock"]
          ELSE IF frames[u].pc = "scan" /\ ~frames[u].detached
          THEN [frames[u] EXCEPT !.detached = TRUE, !.snapshot = disk]
          ELSE frames[u]]
    /\ UNCHANGED <<last, peer, peerDisk, mu>>

\* the return of the method, with its deferred Unlock or RUnlock; what the
\* call returns is in its frame and is not recorded in last
Return(t) ==
    LET frame == frames[t]
    IN  /\ frame.pc = "unlock"
        /\ mu' = Released(mu, LockKind(frame.op, store.useMemory), t)
        /\ frames' = [frames EXCEPT ![t] = Idle]
        /\ UNCHANGED <<store, disk, last, peer, peerDisk>>

NextLocks ==
    \E t \in Goroutines :
        \/ \E call \in Calls : Enter(t, call)
        \/ Acquire(t)
        \/ WriteBody(t)
        \/ ReadBody(t)
        \/ ScanStep(t)
        \/ CompactCreate(t)
        \/ CompactWrite(t)
        \/ CompactReplace(t)
        \/ Return(t)

SpecLocks == InitLocks /\ [][NextLocks]_vars

\* the goroutine holds s.mu, shared or exclusive
HoldsLock(t) == mu.writer = t \/ t \in mu.readers

(***************************************************************************)
(* C13. A scan that reads the Log directly (the file-only Get and          *)
(* FindByFunction) holds at least the shared lock from before its first    *)
(* read until after its last, so the Log does not change, by an append of  *)
(* Set or Delete or a rewrite of Compact, while a scan is in progress.     *)
(***************************************************************************)
C13_ScanUnderSharedLock ==
    [][\A t \in Goroutines :
          frames[t].pc = "scan" => HoldsLock(t) /\ disk' = disk]_vars

\* inside Set, Delete, Compact or Close, between its Lock and its Unlock
InCritical(t) ==
    /\ frames[t].op \in {"Set", "Delete", "Compact", "Close"}
    /\ frames[t].pc \notin {"idle", "lock"}

\* inside the memory-mode Get or FindByFunction, between RLock and RUnlock
InShared(t) ==
    /\ \/ frames[t].op = "Get" /\ store.useMemory
       \/ frames[t].op = "FindByFunction"
    /\ frames[t].pc \notin {"idle", "lock"}

\* Compact has created the temporary log and not yet reopened the Log
Compacting(t) ==
    frames[t].op = "Compact" /\ frames[t].pc \in {"write", "replace"}

(***************************************************************************)
(* C18. Set, Delete, Compact and Close run under the exclusive lock: a     *)
(* goroutine inside one of them holds s.mu as writer, no other goroutine   *)
(* is inside one of them or inside a shared-lock holder (memory-mode Get,  *)
(* FindByFunction), and nobody else changes the Log between Compact's      *)
(* creation of the temporary log and its reopening of the Log.             *)
(***************************************************************************)
C18_ExclusiveLock ==
    /\ [](\A t \in Goroutines :
            InCritical(t)
                => /\ mu.writer = t
                   /\ \A u \in Goroutines \ {t} : ~InCritical(u) /\ ~InShared(u))
    /\ [][\A t \in Goroutines :
            (Compacting(t) /\ frames'[t] = frames[t]) => disk' = disk]_vars

\* a Set waiting for the lock while Compact is about to replace the Log
C18_Witness ==
    \E t, u \in Goroutines :
        /\ frames[t].op = "Compact" /\ frames[t].pc = "replace"
        /\ frames[u].op = "Set" /\ frames[u].pc = "lock"

====
